---- MODULE Spec2Model ----
(***************************************************************************)
(* PyClick MDBN click model: MDBNResult / MDBNSession observations, the    *)
(* forward and backward recursions, the exact forward pass                  *)
(* (_get_tail_clicks), the continuation factor and the EM update rules of  *)
(* src/pyclick/click_models/MDBN.py.                                        *)
(*                                                                         *)
(* Probabilities are exact rationals <<n, d>> (d > 0, lowest terms); the   *)
(* code's floats are modelled without rounding.  A Python exception is the *)
(* "exc" field of a returned record.                                       *)
(***************************************************************************)
EXTENDS Integers, Sequences, FiniteSets, TLC

(* ---- bounds of the model ---- *)
MaxRanks == 2
MaxUpdates == 2
MaxContUpdates == 1

(* ---- exact arithmetic standing for the float operators of MDBN.py ---- *)
Abs(n) == IF n < 0 THEN -n ELSE n

RECURSIVE GCD(_, _)
GCD(a, b) == IF b = 0 THEN a ELSE GCD(b, a % b)

Rat(n, d) ==
    LET s == IF d < 0 THEN -1 ELSE 1
        g == GCD(Abs(n), Abs(d))
    IN  <<(s * n) \div g, (s * d) \div g>>

Zero == Rat(0, 1)
One == Rat(1, 1)

RAdd(p, q) == Rat(p[1] * q[2] + q[1] * p[2], p[2] * q[2])
RSub(p, q) == Rat(p[1] * q[2] - q[1] * p[2], p[2] * q[2])
RMul(p, q) == Rat(p[1] * q[1], p[2] * q[2])
RDiv(p, q) == Rat(p[1] * q[2], p[2] * q[1])
RLe(p, q) == p[1] * q[2] <= q[1] * p[2]
RLt(p, q) == p[1] * q[2] < q[1] * p[2]
Compl(p) == RSub(One, p)

(* ---- Python values ---- *)
None == -1
Truthy(v) == v # None /\ v # 0
NoExc == "none"

(* ---- current parameter values (the model's parameter containers) ---- *)
Docs == {"d1", "d2"}

AttrValue(id) == IF id = "d1" THEN Rat(1, 2) ELSE One

SatValue(id) == IF id = "d1" THEN Rat(1, 3) ELSE Zero

ContValues == { <<Rat(3, 4), Rat(1, 2)>>, <<Zero, One>> }

(* observations fed to the MDBNResult constructor: <<click, sat>> *)
ResultInputs == { <<0, None>>, <<0, 1>>, <<1, 0>>, <<1, 1>>, <<1, 2>> }

VARIABLES
    web_results,    \* MDBNSession.web_results: sequence of [id, click, sat]
    cont_sat,       \* value of the single cont_sat parameter
    cont_nosat,     \* value of the single cont_nosat parameter
    op,             \* the last call made
    arg,            \* its rank / start_rank argument (None when it has none)
    ret,            \* what it returned, or the exception it raised
    attr_em,        \* MDBNAttrEM accumulator [num, den]
    sat_em,         \* MDBNSatEM accumulator [num, den]
    cont_sat_em,    \* MDBNContSatEM accumulator [num, den]
    cont_nosat_em,  \* MDBNContNoSatEM accumulator [num, den]
    seen            \* history: how many (session, rank) pairs the update rules were given

vars == <<web_results, cont_sat, cont_nosat, op, arg, ret,
          attr_em, sat_em, cont_sat_em, cont_nosat_em, seen>>

params == <<cont_sat, cont_nosat>>
accumulators == <<attr_em, sat_em, cont_sat_em, cont_nosat_em, seen>>

Ranks == 0 .. Len(web_results) - 1
Result(rank) == web_results[rank + 1]

(* ---- MDBNResult.__init__ ---- *)
MDBNResult(search_result_id, click, sat) ==
    IF sat = None
    THEN [exc |-> NoExc, id |-> search_result_id, click |-> click, sat |-> None]
    ELSE IF sat \in {0, 1}
         THEN [exc |-> NoExc, id |-> search_result_id, click |-> click, sat |-> sat]
         ELSE [exc |-> "RuntimeError", id |-> search_result_id, click |-> click,
               sat |-> None]

(* ParamEM accumulators at the start of a pass *)
NewParamEM == [num |-> Zero, den |-> Zero]

Init ==
    /\ web_results = << >>
    /\ \E c \in ContValues : cont_sat = c[1] /\ cont_nosat = c[2]
    /\ op = "init"
    /\ arg = None
    /\ ret = [exc |-> NoExc]
    /\ attr_em = NewParamEM
    /\ sat_em = NewParamEM
    /\ cont_sat_em = NewParamEM
    /\ cont_nosat_em = NewParamEM
    /\ seen = [updates |-> 0, attr_calls |-> 0, sat_clicked |-> 0, sat_true |-> 0]

(* MDBNSession.from_JSON: one iteration of the loop building web_results *)
NewResult(id, click, sat) ==
    /\ op \in {"init", "MDBNResult"}
    /\ Len(web_results) < MaxRanks
    /\ LET r == MDBNResult(id, click, sat) IN
        /\ ret' = r
        /\ web_results' = IF r.exc = NoExc
                          THEN Append(web_results,
                                      [id |-> r.id, click |-> r.click, sat |-> r.sat])
                          ELSE web_results
    /\ op' = "MDBNResult"
    /\ arg' = None
    /\ UNCHANGED <<params, accumulators>>

(* ---- ClickModel.get_session_params: current parameter values by rank ---- *)
base_session_params ==
    [i \in 1 .. Len(web_results) |->
        [attr |-> AttrValue(web_results[i].id),
         sat |-> SatValue(web_results[i].id),
         cont_sat |-> cont_sat,
         cont_nosat |-> cont_nosat]]

\* mutant: the single-continuation (DBN) update rule, without the cont_sat term
ExamStepMut(exam, p) ==
    RMul(exam,
         RMul(p.cont_nosat, RAdd(RMul(Compl(p.sat), p.attr), Compl(p.attr))))

(* ---- MDBN._get_session_exam ---- *)
ExamStep(exam, p) ==
    RMul(exam,
         RAdd(RMul(p.cont_nosat,
                   RAdd(RMul(Compl(p.sat), p.attr), Compl(p.attr))),
              RMul(RMul(p.cont_sat, p.attr), p.sat)))

RECURSIVE SessionExamLoop(_, _, _)
SessionExamLoop(session_params, rank, session_exam) ==
    IF rank >= Len(session_params)
    THEN session_exam
    ELSE SessionExamLoop(session_params, rank + 1,
             Append(session_exam,
                    ExamStep(session_exam[rank + 1], session_params[rank + 1])))

get_session_exam(session_params) ==
    SessionExamLoop(session_params, 0, <<One>>)

\* mutant: the (1 - attr) factor is dropped
CarStepMut(car, p) ==
    RAdd(p.attr, RMul(p.cont_nosat, car))

(* ---- MDBN._get_session_clickafterrank ---- *)
CarStep(car, p) ==
    RAdd(p.attr, RMul(RMul(Compl(p.attr), p.cont_nosat), car))

RECURSIVE SessionCarLoop(_, _, _)
SessionCarLoop(session_params, rank, session_car) ==
    IF rank < 0
    THEN session_car
    ELSE SessionCarLoop(session_params, rank - 1,
             [session_car EXCEPT ![rank + 1] =
                 CarStep(session_car[rank + 2], session_params[rank + 1])])

get_session_clickafterrank(session_params) ==
    SessionCarLoop(session_params, Len(web_results) - 1,
                   [i \in 1 .. Len(web_results) + 1 |-> Zero])

(* ---- MDBN.get_session_params ---- *)
get_session_params ==
    LET session_params == base_session_params
        session_exam == get_session_exam(session_params)
        session_car == get_session_clickafterrank(session_params)
    IN  [i \in 1 .. Len(session_params) |->
            [attr |-> session_params[i].attr,
             sat |-> session_params[i].sat,
             cont_sat |-> session_params[i].cont_sat,
             cont_nosat |-> session_params[i].cont_nosat,
             exam |-> session_exam[i],
             car |-> session_car[i]]]

(* ---- MDBN.get_full_click_probs ---- *)
get_full_click_probs ==
    LET session_params == get_session_params
    IN  [i \in 1 .. Len(session_params) |->
            RMul(session_params[i].attr, session_params[i].exam)]

(* ---- MDBN._get_tail_clicks ---- *)
\* the parameters read for the result at position `rank` of the enumerated
\* slice web_results[start_rank:]
TailParams(session_params, start_rank, rank) == session_params[rank + 1]

\* mutant: after a click the examination uses the inferred satisfaction
\* (cont_nosat*(1-sat) + cont_sat*sat) instead of the observed flag
TailStepMut(st, result, p) ==
    IF Truthy(result.click)
    THEN LET click_prob == RMul(p.attr, st.exam)
             exam == RAdd(RMul(p.cont_nosat, Compl(p.sat)),
                          RMul(p.cont_sat, p.sat))
         IN  [exc |-> NoExc, exam |-> exam,
              click_probs |-> Append(st.click_probs, click_prob),
              exam_probs |-> Append(st.exam_probs, exam)]
    ELSE LET click_prob == RSub(One, RMul(p.attr, st.exam))
         IN  IF click_prob = Zero
             THEN [st EXCEPT !.exc = "ZeroDivisionError"]
             ELSE LET exam == RMul(st.exam,
                                   RDiv(RMul(p.cont_nosat, Compl(p.attr)),
                                        click_prob))
                  IN  [exc |-> NoExc, exam |-> exam,
                       click_probs |-> Append(st.click_probs, click_prob),
                       exam_probs |-> Append(st.exam_probs, exam)]

\* one iteration of the loop; st = [exc, exam, click_probs, exam_probs]
TailStep(st, result, p) ==
    IF Truthy(result.click)
    THEN LET click_prob == RMul(p.attr, st.exam)
             exam == IF Truthy(result.sat) THEN p.cont_sat ELSE p.cont_nosat
         IN  [exc |-> NoExc, exam |-> exam,
              click_probs |-> Append(st.click_probs, click_prob),
              exam_probs |-> Append(st.exam_probs, exam)]
    ELSE LET click_prob == RSub(One, RMul(p.attr, st.exam))
         IN  IF click_prob = Zero
             THEN [st EXCEPT !.exc = "ZeroDivisionError"]
             ELSE LET exam == RMul(st.exam,
                                   RDiv(RMul(p.cont_nosat, Compl(p.attr)),
                                        click_prob))
                  IN  [exc |-> NoExc, exam |-> exam,
                       click_probs |-> Append(st.click_probs, click_prob),
                       exam_probs |-> Append(st.exam_probs, exam)]

RECURSIVE TailLoop(_, _, _, _)
TailLoop(session_params, start_rank, rank, st) ==
    IF st.exc # NoExc \/ start_rank + rank >= Len(web_results)
    THEN st
    ELSE TailLoop(session_params, start_rank, rank + 1,
                  TailStep(st, Result(start_rank + rank),
                           TailParams(session_params, start_rank, rank)))

get_tail_clicks(start_rank, session_params) ==
    LET st == TailLoop(session_params, start_rank, 0,
                       [exc |-> NoExc, exam |-> One,
                        click_probs |-> << >>, exam_probs |-> <<One>>])
    IN  [exc |-> st.exc, click_probs |-> st.click_probs,
         exam_probs |-> st.exam_probs]

(* ---- MDBN.get_conditional_click_probs ---- *)
get_conditional_click_probs ==
    LET t == get_tail_clicks(0, get_session_params)
    IN  [exc |-> t.exc, val |-> t.click_probs]

(* ---- SearchSession.get_last_click_rank ---- *)
\* rank of the last clicked result; the number of results when none is clicked
get_last_click_rank ==
    LET click_ranks == {r \in Ranks : Truthy(Result(r).click)}
    IN  IF click_ranks = {}
        THEN Len(web_results)
        ELSE CHOOSE r \in click_ranks : \A q \in click_ranks : q <= r

(* ---- MDBN._get_continuation_factor.factor ---- *)
\* log_prob is carried as exp(log_prob); st is "run" while the body is still
\* executing, "ret" after an early `return 0.0`, "exc" after an exception.
LogStart == [st |-> "run", val |-> One, exc |-> NoExc]
Return0 == [st |-> "ret", val |-> Zero, exc |-> NoExc]
Raise(e) == [st |-> "exc", val |-> Zero, exc |-> e]

\* log_prob += math.log(p)
AddLog(lp, p) ==
    IF lp.st # "run" THEN lp
    ELSE IF RLe(p, Zero) THEN Raise("ValueError")
    ELSE [lp EXCEPT !.val = RMul(@, p)]

RECURSIVE AddLogs(_, _, _)
AddLogs(lp, ps, i) ==
    IF i > Len(ps) THEN lp ELSE AddLogs(AddLog(lp, ps[i]), ps, i + 1)

\* parts (2)-(4) when the result at the rank was not clicked
FactorNoClick(lp, p, x, y, z) ==
    IF y = 1 THEN Return0
    ELSE LET lp1 == IF x = 1
                    THEN AddLog(lp, IF z = 1 THEN p.cont_nosat
                                    ELSE Compl(p.cont_nosat))
                    ELSE IF z = 1 THEN Return0 ELSE lp
         IN  AddLog(lp1, Compl(p.attr))

\* P(E_{r+1} = z | S_r = 1, C_r = 1) as the clicked branch uses it
SatTransition(p, z) == IF z = 1 THEN p.cont_sat ELSE p.cont_nosat

\* parts (2)-(4) when the result at the rank was clicked
FactorClick(lp, p, x, y, z) ==
    IF x = 0 THEN Return0
    ELSE LET lp1 == IF y = 0
                    THEN AddLog(AddLog(lp, Compl(p.sat)),
                                IF z = 1 THEN p.cont_nosat
                                ELSE Compl(p.cont_nosat))
                    ELSE AddLog(AddLog(lp, p.sat), SatTransition(p, z))
         IN  AddLog(lp1, p.attr)

\* part (5)
FactorTail(lp, rank, z, session_params) ==
    IF lp.st # "run" THEN lp
    ELSE IF z = 0
    THEN IF get_last_click_rank >= rank + 1 THEN Return0 ELSE lp
    ELSE IF rank + 1 < Len(web_results)
    THEN LET t == get_tail_clicks(rank + 1, session_params)
         IN  IF t.exc # NoExc THEN Raise(t.exc)
             ELSE AddLogs(lp, t.click_probs, 1)
    ELSE lp

\* mutant: the branches of `exam if x else (1 - exam)` are swapped
FactorExamMut(lp, rank, x, session_params) ==
    IF lp.st # "run" THEN lp
    ELSE LET t == get_tail_clicks(0, session_params)
         IN  IF t.exc # NoExc THEN Raise(t.exc)
             ELSE LET exam == t.exam_probs[rank + 1]
                  IN  AddLog(lp, IF x = 1 THEN Compl(exam) ELSE exam)

\* part (1)
FactorExam(lp, rank, x, session_params) ==
    IF lp.st # "run" THEN lp
    ELSE LET t == get_tail_clicks(0, session_params)
         IN  IF t.exc # NoExc THEN Raise(t.exc)
             ELSE LET exam == t.exam_probs[rank + 1]
                  IN  AddLog(lp, IF x = 1 THEN exam ELSE Compl(exam))

factor(rank, session_params, x, y, z) ==
    LET p == session_params[rank + 1]
        lp24 == IF ~Truthy(Result(rank).click)
                THEN FactorNoClick(LogStart, p, x, y, z)
                ELSE FactorClick(LogStart, p, x, y, z)
        lp5 == FactorTail(lp24, rank, z, session_params)
        lp1 == FactorExam(lp5, rank, x, session_params)
    IN  [exc |-> lp1.exc, val |-> lp1.val]

Bits == {0, 1}
XYZ == Bits \X Bits \X Bits

\* the closure returned by _get_continuation_factor, as its table of results
get_continuation_factor(rank, session_params) ==
    [a \in XYZ |-> factor(rank, session_params, a[1], a[2], a[3])]

(* ---- MDBNAttrEM.update ---- *)
\* search_session.web_results is a Python list; these are the attributes a
\* list has, so `web_results.click` is looked up among them (one found there
\* would be a bound method, which is true in a condition)
ListAttributes == {"append", "clear", "copy", "count", "extend", "index",
                   "insert", "pop", "remove", "reverse", "sort"}

AttrEMUpdate(em, rank, session_params) ==
    IF "click" \notin ListAttributes
    THEN [exc |-> "AttributeError", em |-> em]
    ELSE IF "click" \in ListAttributes
    THEN [exc |-> NoExc,
          em |-> [num |-> RAdd(em.num, One), den |-> RAdd(em.den, One)]]
    ELSE IF rank >= get_last_click_rank
    THEN LET p == session_params[rank + 1]
             num == RMul(Compl(p.exam), p.attr)
             denom == RSub(One, RMul(p.exam, p.car))
         IN  IF denom = Zero
             THEN [exc |-> "ZeroDivisionError", em |-> em]
             ELSE [exc |-> NoExc,
                   em |-> [num |-> RAdd(em.num, RDiv(num, denom)),
                           den |-> RAdd(em.den, One)]]
    ELSE [exc |-> NoExc, em |-> [em EXCEPT !.den = RAdd(@, One)]]

(* ---- MDBNSatEM.update ---- *)
\* mutant: the denominator is incremented outside the click test
SatEMUpdateMut(em, result) ==
    [num |-> IF Truthy(result.click) /\ Truthy(result.sat)
             THEN RAdd(em.num, One) ELSE em.num,
     den |-> RAdd(em.den, One)]

(* ---- MDBNSatEM.update ---- *)
SatEMUpdate(em, result) ==
    IF Truthy(result.click)
    THEN [num |-> IF Truthy(result.sat) THEN RAdd(em.num, One) ELSE em.num,
          den |-> RAdd(em.den, One)]
    ELSE em

(* ---- exam_prob of MDBNContSatEM.update / MDBNContNoSatEM.update ---- *)
\* itertools.product([0, 1], repeat=3), in its order
Product == << <<0, 0, 0>>, <<0, 0, 1>>, <<0, 1, 0>>, <<0, 1, 1>>,
              <<1, 0, 0>>, <<1, 0, 1>>, <<1, 1, 0>>, <<1, 1, 1>> >>

RECURSIVE FactorSum(_, _, _)
FactorSum(f, i, acc) ==
    IF i > Len(Product) THEN [exc |-> NoExc, val |-> acc]
    ELSE IF f[Product[i]].exc # NoExc
    THEN [exc |-> f[Product[i]].exc, val |-> acc]
    ELSE FactorSum(f, i + 1, RAdd(acc, f[Product[i]].val))

exam_prob(f, y, z) ==
    LET n == f[<<1, y, z>>]
        s == FactorSum(f, 1, Zero)
    IN  IF n.exc # NoExc THEN [exc |-> n.exc, val |-> Zero]
        ELSE IF s.exc # NoExc THEN [exc |-> s.exc, val |-> Zero]
        ELSE IF s.val = Zero THEN [exc |-> "ZeroDivisionError", val |-> Zero]
        ELSE [exc |-> NoExc, val |-> RDiv(n.val, s.val)]

\* numerator += exam_prob(1); denominator += exam_prob(0) + exam_prob(1)
ContUpdate(em, f, y) ==
    LET p1 == exam_prob(f, y, 1)
        p0 == exam_prob(f, y, 0)
    IN  IF p1.exc # NoExc THEN [exc |-> p1.exc, em |-> em]
        ELSE IF p0.exc # NoExc
        THEN [exc |-> p0.exc, em |-> [em EXCEPT !.num = RAdd(@, p1.val)]]
        ELSE [exc |-> NoExc,
              em |-> [num |-> RAdd(em.num, p1.val),
                      den |-> RAdd(em.den, RAdd(RAdd(Zero, p0.val), p1.val))]]

(* ---- MDBNContSatEM.update ---- *)
ContSatEMUpdate(em, rank, session_params) ==
    ContUpdate(em, get_continuation_factor(rank, session_params), 1)

(* ---- MDBNContNoSatEM.update ---- *)
ContNoSatEMUpdate(em, rank, session_params) ==
    ContUpdate(em, get_continuation_factor(rank, session_params), 0)

(***************************************************************************)
(* Calls on a constructed session                                          *)
(***************************************************************************)
Returns(name, a, r) ==
    /\ op' = name
    /\ arg' = a
    /\ ret' = r

GetSessionExam ==
    /\ Returns("_get_session_exam", None,
               [exc |-> NoExc, val |-> get_session_exam(base_session_params)])
    /\ UNCHANGED <<web_results, params, accumulators>>

GetSessionClickAfterRank ==
    /\ Returns("_get_session_clickafterrank", None,
               [exc |-> NoExc,
                val |-> get_session_clickafterrank(base_session_params)])
    /\ UNCHANGED <<web_results, params, accumulators>>

GetFullClickProbs ==
    /\ Returns("get_full_click_probs", None,
               [exc |-> NoExc, val |-> get_full_click_probs])
    /\ UNCHANGED <<web_results, params, accumulators>>

GetConditionalClickProbs ==
    /\ Returns("get_conditional_click_probs", None, get_conditional_click_probs)
    /\ UNCHANGED <<web_results, params, accumulators>>

GetTailClicks(start_rank) ==
    /\ Returns("_get_tail_clicks", start_rank,
               get_tail_clicks(start_rank, get_session_params))
    /\ UNCHANGED <<web_results, params, accumulators>>

GetContinuationFactor(rank) ==
    /\ Returns("_get_continuation_factor", rank,
               [exc |-> NoExc,
                val |-> get_continuation_factor(rank, get_session_params)])
    /\ UNCHANGED <<web_results, params, accumulators>>

(***************************************************************************)
(* EM update rules applied to a (session, rank) pair                       *)
(***************************************************************************)
AttrUpdate(rank) ==
    /\ seen.updates < MaxUpdates
    /\ LET r == AttrEMUpdate(attr_em, rank, get_session_params) IN
        /\ attr_em' = r.em
        /\ Returns("MDBNAttrEM.update", rank, [exc |-> r.exc])
    /\ seen' = [seen EXCEPT !.updates = @ + 1, !.attr_calls = @ + 1]
    /\ UNCHANGED <<web_results, params, sat_em, cont_sat_em, cont_nosat_em>>

SatUpdate(rank) ==
    /\ seen.updates < MaxUpdates
    /\ sat_em' = SatEMUpdate(sat_em, Result(rank))
    /\ Returns("MDBNSatEM.update", rank, [exc |-> NoExc])
    /\ seen' = [seen EXCEPT
                  !.updates = @ + 1,
                  !.sat_clicked = IF Result(rank).click = 1 THEN @ + 1 ELSE @,
                  !.sat_true = IF Result(rank).click = 1 /\ Result(rank).sat = 1
                               THEN @ + 1 ELSE @]
    /\ UNCHANGED <<web_results, params, attr_em, cont_sat_em, cont_nosat_em>>

ContSatUpdate(rank) ==
    /\ seen.updates < MaxContUpdates
    /\ LET r == ContSatEMUpdate(cont_sat_em, rank, get_session_params) IN
        /\ cont_sat_em' = r.em
        /\ Returns("MDBNContSatEM.update", rank, [exc |-> r.exc])
    /\ seen' = [seen EXCEPT !.updates = @ + 1]
    /\ UNCHANGED <<web_results, params, attr_em, sat_em, cont_nosat_em>>

ContNoSatUpdate(rank) ==
    /\ seen.updates < MaxContUpdates
    /\ LET r == ContNoSatEMUpdate(cont_nosat_em, rank, get_session_params) IN
        /\ cont_nosat_em' = r.em
        /\ Returns("MDBNContNoSatEM.update", rank, [exc |-> r.exc])
    /\ seen' = [seen EXCEPT !.updates = @ + 1]
    /\ UNCHANGED <<web_results, params, attr_em, sat_em, cont_sat_em>>

Construct ==
    \E id \in Docs, in \in ResultInputs : NewResult(id, in[1], in[2])

Next ==
    \/ Construct
    \/ GetSessionExam
    \/ GetSessionClickAfterRank
    \/ GetFullClickProbs
    \/ GetConditionalClickProbs
    \/ \E start_rank \in Ranks : GetTailClicks(start_rank)
    \/ \E rank \in Ranks : GetContinuationFactor(rank)

Spec == Init /\ [][Next]_vars

NextEM ==
    \/ Construct
    \/ \E rank \in Ranks : AttrUpdate(rank)
    \/ \E rank \in Ranks : SatUpdate(rank)

SpecEM == Init /\ [][NextEM]_vars

NextCont ==
    \/ Construct
    \/ \E rank \in Ranks : ContSatUpdate(rank)
    \/ \E rank \in Ranks : ContNoSatUpdate(rank)

SpecCont == Init /\ [][NextCont]_vars

(***************************************************************************)
(* Properties                                                              *)
(***************************************************************************)
Clicked(rank) == Result(rank).click = 1
NotClicked(rank) == Result(rank).click = 0
SatFlag(rank) == Result(rank).sat = 1
Attr(rank) == AttrValue(Result(rank).id)
Sat(rank) == SatValue(Result(rank).id)

Interior(p) == RLt(Zero, p) /\ RLt(p, One)
InUnit(p) == RLe(Zero, p) /\ RLe(p, One)
AllInUnit(seq) == \A i \in 1 .. Len(seq) : InUnit(seq[i])

\* every current parameter value of the session is strictly between 0 and 1
InteriorParams ==
    /\ Interior(cont_sat)
    /\ Interior(cont_nosat)
    /\ \A r \in Ranks : Interior(Attr(r)) /\ Interior(Sat(r))

\* satisfaction is never observed without a click
ConsistentObservations == \A r \in Ranks : SatFlag(r) => Clicked(r)

\* C1: the constructor never produces a result with no click and a true
\* satisfaction flag (click=0, sat=1 is rejected with an error).
C1_NoSatWithoutClick ==
    (op = "MDBNResult" /\ ret.exc = NoExc) => ~(ret.click = 0 /\ ret.sat = 1)

\* C2: from start_rank 0 the forward pass returns n click probabilities and
\* n+1 examination probabilities, exam[0] = 1, linked rank by rank: clicked,
\* click_prob = a*e and the next e is cont_sat if the satisfaction flag is
\* true, else cont_nosat; not clicked, click_prob = 1 - a*e and the next e
\* is e*cont_nosat*(1-a)/click_prob.  With parameters strictly inside (0,1)
\* the pass always returns.  get_conditional_click_probs returns that same
\* click-probability sequence.
C2_Linked(click_probs, exam_probs) ==
    /\ Len(click_probs) = Len(web_results)
    /\ Len(exam_probs) = Len(web_results) + 1
    /\ exam_probs[1] = One
    /\ \A r \in Ranks :
        LET e == exam_probs[r + 1]
            nxt == exam_probs[r + 2]
            cp == click_probs[r + 1]
        IN  IF Clicked(r)
            THEN /\ cp = RMul(Attr(r), e)
                 /\ nxt = IF SatFlag(r) THEN cont_sat ELSE cont_nosat
            ELSE /\ cp = RSub(One, RMul(Attr(r), e))
                 /\ cp # Zero
                 /\ nxt = RDiv(RMul(RMul(e, cont_nosat), Compl(Attr(r))), cp)

RECURSIVE C2_Exam(_)
C2_Exam(r) ==
    IF r = 0 THEN One
    ELSE IF Clicked(r - 1)
    THEN IF SatFlag(r - 1) THEN cont_sat ELSE cont_nosat
    ELSE LET e == C2_Exam(r - 1)
         IN  RDiv(RMul(RMul(e, cont_nosat), Compl(Attr(r - 1))),
                  RSub(One, RMul(Attr(r - 1), e)))

C2_ClickProbs ==
    [i \in 1 .. Len(web_results) |->
        IF Clicked(i - 1)
        THEN RMul(Attr(i - 1), C2_Exam(i - 1))
        ELSE RSub(One, RMul(Attr(i - 1), C2_Exam(i - 1)))]

C2_ForwardPass ==
    /\ (op = "_get_tail_clicks" /\ arg = 0 /\ InteriorParams) => ret.exc = NoExc
    /\ (op = "_get_tail_clicks" /\ arg = 0 /\ ret.exc = NoExc)
          => C2_Linked(ret.click_probs, ret.exam_probs)
    /\ (op = "get_conditional_click_probs" /\ InteriorParams) => ret.exc = NoExc
    /\ (op = "get_conditional_click_probs" /\ ret.exc = NoExc)
          => ret.val = C2_ClickProbs

C2_Witness ==
    /\ op = "_get_tail_clicks" /\ arg = 0 /\ ret.exc = NoExc
    /\ InteriorParams
    /\ \E r, q \in Ranks : Clicked(r) /\ SatFlag(r) /\ NotClicked(q)

\* C3: every attractiveness update completes and adds exactly 1 to the
\* denominator.
C3_AttrUpdateCompletes ==
    /\ (op = "MDBNAttrEM.update") => ret.exc = NoExc
    /\ attr_em.den = Rat(seen.attr_calls, 1)

\* C4 as claimed: the full click probabilities are the forward pass's
\* click-probability sequence.
C4_FullIsForwardPass ==
    (op = "get_full_click_probs" /\ InteriorParams) => ret.val = C2_ClickProbs

\* C4 amended: get_full_click_probs returns attr_r * E[r] at every rank r,
\* E being the unconditional examination recursion: E[0] = 1,
\* E[r+1] = E[r] * (cont_nosat*((1-sat_r)*attr_r + (1-attr_r))
\*                  + cont_sat*attr_r*sat_r).
RECURSIVE C4_Exam(_)
C4_Exam(r) ==
    IF r = 0 THEN One
    ELSE LET a == Attr(r - 1)
             s == Sat(r - 1)
         IN  RMul(C4_Exam(r - 1),
                  RAdd(RMul(cont_nosat, RAdd(RMul(Compl(s), a), Compl(a))),
                       RMul(cont_sat, RMul(a, s))))

C4_FullIsUnconditional ==
    (op = "get_full_click_probs")
        => /\ ret.exc = NoExc
           /\ Len(ret.val) = Len(web_results)
           /\ \A r \in Ranks : ret.val[r + 1] = RMul(Attr(r), C4_Exam(r))

C4_Witness ==
    /\ op = "get_full_click_probs"
    /\ InteriorParams
    /\ Len(web_results) >= 2
    /\ ret.val # C2_ClickProbs

\* C5: the satisfaction accumulator's denominator is the number of processed
\* (session, rank) pairs that were clicked, its numerator the number of those
\* whose satisfaction flag was true, so 0 <= numerator <= denominator; an
\* update at a rank that was not clicked changes neither.
C5_Counts ==
    /\ sat_em.den = Rat(seen.sat_clicked, 1)
    /\ sat_em.num = Rat(seen.sat_true, 1)
    /\ RLe(Zero, sat_em.num)
    /\ RLe(sat_em.num, sat_em.den)

C5_NoClickStep ==
    (op' = "MDBNSatEM.update" /\ seen'.updates = seen.updates + 1
        /\ web_results[arg' + 1].click = 0) => sat_em' = sat_em

C5_SatCounts == []C5_Counts /\ [][C5_NoClickStep]_vars

C5_Witness ==
    /\ op = "MDBNSatEM.update"
    /\ seen.sat_clicked = 2
    /\ seen.sat_true = 1

\* C6: for consistent observations and parameters strictly between 0 and 1
\* the eight continuation factors sum to more than 0, and the two
\* continuation updates complete without dividing by zero.
C6_FactorSum ==
    FactorSum(get_continuation_factor(arg, get_session_params), 1, Zero)

C7_ProbabilityBounds ==
    /\ (op \in {"_get_session_exam", "_get_session_clickafterrank"})
          => AllInUnit(ret.val) /\ Len(ret.val) = Len(web_results) + 1
    /\ (op = "_get_tail_clicks" /\ ret.exc = NoExc)
          => AllInUnit(ret.click_probs) /\ AllInUnit(ret.exam_probs)

C7_Witness ==
    /\ op = "_get_session_clickafterrank"
    /\ Len(web_results) >= 2
    /\ \E i \in 1 .. Len(ret.val) : ret.val[i] = One
    /\ \E i \in 1 .. Len(ret.val) : Interior(ret.val[i])

\* what parts (5) and (1) of the factor contribute for (x, z) at a rank
RestOfFactor(rank, x, z) ==
    FactorExam(FactorTail(LogStart, rank, z, get_session_params),
               rank, x, get_session_params).val

\* C8: at a clicked rank with x=1 the emission/transition part is
\* attr*(1-sat)*(cont_nosat if z else 1-cont_nosat) for y=0 and
\* attr*sat*(cont_sat if z else 1-cont_sat) for y=1.
C8_Emission(rank, y, z) ==
    IF y = 0
    THEN RMul(RMul(Attr(rank), Compl(Sat(rank))),
              IF z = 1 THEN cont_nosat ELSE Compl(cont_nosat))
    ELSE RMul(RMul(Attr(rank), Sat(rank)),
              IF z = 1 THEN cont_sat ELSE Compl(cont_sat))

C8_ClickedFactor ==
    (op = "_get_continuation_factor" /\ InteriorParams /\ Clicked(arg))
        => \A y, z \in Bits :
              /\ ret.val[<<1, y, z>>].exc = NoExc
              /\ ret.val[<<1, y, z>>].val =
                    RMul(C8_Emission(arg, y, z), RestOfFactor(arg, 1, z))

\* C9: at a rank that was not clicked, y=1 gives 0; x=0 gives 0 for z=1 and
\* no emission/transition factor at all for z=0; x=1 gives
\* (1-attr)*(cont_nosat if z else 1-cont_nosat).
C9_NotClickedFactor ==
    (op = "_get_continuation_factor" /\ InteriorParams /\ NotClicked(arg))
        => /\ \A a \in XYZ : ret.val[a].exc = NoExc
           /\ \A x, z \in Bits : ret.val[<<x, 1, z>>].val = Zero
           /\ ret.val[<<0, 0, 1>>].val = Zero
           /\ ret.val[<<0, 0, 0>>].val = RestOfFactor(arg, 0, 0)
           /\ \A z \in Bits :
                ret.val[<<1, 0, z>>].val =
                    RMul(RMul(Compl(Attr(arg)),
                              IF z = 1 THEN cont_nosat ELSE Compl(cont_nosat)),
                         RestOfFactor(arg, 1, z))

\* C10: restarted at start_rank, the forward pass computes the click
\* probability of the result at absolute rank start_rank+i from the
\* attractiveness of that same absolute rank.
C10_TailUsesAbsoluteRank ==
    (op = "_get_tail_clicks" /\ ret.exc = NoExc)
        => \A i \in 0 .. Len(ret.click_probs) - 1 :
              ret.click_probs[i + 1] =
                 IF Clicked(arg + i)
                 THEN RMul(Attr(arg + i), ret.exam_probs[i + 1])
                 ELSE RSub(One, RMul(Attr(arg + i), ret.exam_probs[i + 1]))

====
